---- MODULE Spec2Model ----
(***************************************************************************)
(* Cause-chain traversal and retry decisions of base-error-ts.             *)
(*                                                                         *)
(* The heap holds the error objects (their `cause` slot and the fields the *)
(* structured-error guards look at); `call` is the one call in progress:   *)
(* the arguments, the suspended generator traverseCauseChain, the locals   *)
(* of the consuming for-of loop and the outcome.  `err` is one BaseError   *)
(* with its user messages and the outcome of the last method called on it; *)
(* `bld` holds the ErrorResponseBuilder objects, the ctx and details       *)
(* objects their states refer to, and the response built last.             *)
(***************************************************************************)
EXTENDS Integers, Sequences, FiniteSets, TLC

VARIABLES heap, call, err, bld

vars == <<heap, call, err, bld>>

(***************************************************************************)
(* Bounds of the model.                                                    *)
(***************************************************************************)
\* Largest number of error objects on the heap.
NumObj == 3

\* Number of language codes and of message texts handed to a BaseError.
NumLang == 2

NumMsg == 2

\* Largest number of ErrorResponseBuilder objects.
MaxBuilders == 3

\* Number of nested calls the engine's call stack holds; one more raises
\* RangeError.
StackLimit == 8

(***************************************************************************)
(* JavaScript values.  An object is named by its identity; everything else *)
(* is a value without identity of its own.                                 *)
(***************************************************************************)
Obj(i) == [tag |-> "object", id |-> i]

Undefined == [tag |-> "undefined", id |-> 0]

Null == [tag |-> "null", id |-> 0]

Str == [tag |-> "string", id |-> 0]

Num == [tag |-> "number", id |-> 0]

False == [tag |-> "boolean", id |-> 0]

True == [tag |-> "boolean", id |-> 1]

Array(n) == [tag |-> "array", id |-> n]

Primitives == {Str, Num, True}

NonObjects == {Undefined, Null} \cup Primitives

Objects == {Obj(i) : i \in DOMAIN heap}

Values == Objects \cup NonObjects

\* typeof: null is an "object" to JavaScript.
TypeOf(v) == IF v.tag = "null" THEN "object" ELSE v.tag

(***************************************************************************)
(* The fields of an error object that the guards read.                     *)
(*   structured : created by `new StructuredError(...)`                    *)
(*   shape      : carries a string `code` and a string `category`          *)
(*   retryable  : "true", "false", or "absent" (no such key)               *)
(***************************************************************************)
StructuredRetryable == [structured |-> TRUE, shape |-> TRUE, retryable |-> "true"]

StructuredNotRetryable == [structured |-> TRUE, shape |-> TRUE, retryable |-> "false"]

PlainRetryableOnly == [structured |-> FALSE, shape |-> FALSE, retryable |-> "true"]

PlainStructuredShape == [structured |-> FALSE, shape |-> TRUE, retryable |-> "true"]

Kinds == {StructuredRetryable, StructuredNotRetryable, PlainRetryableOnly, PlainStructuredShape}

\* value.cause: reading a missing key yields undefined.
Cause(v) == IF heap[v.id].hasCause THEN heap[v.id].cause ELSE Undefined

\* "cause" in value
HasCauseKey(v) == heap[v.id].hasCause

\* Faulty variants: one that takes every object to have a cause, one that
\* takes a null or undefined cause for a missing one.
IsErrorWithCause_AnyObject(value) ==
    /\ TypeOf(value) = "object"
    /\ value # Null

IsErrorWithCause_NullishIsAbsent(value) ==
    /\ TypeOf(value) = "object"
    /\ value # Null
    /\ HasCauseKey(value)
    /\ Cause(value) \notin {Null, Undefined}

IsErrorWithCause(value) ==
    /\ TypeOf(value) = "object"
    /\ value # Null
    /\ HasCauseKey(value)

IsStructuredError(value) ==
    /\ value.tag = "object"
    /\ heap[value.id].kind.structured

\* Faulty variant: any object that carries retryable: true.
IsRetryableStructuredError_AnyRetryable(value) ==
    /\ value.tag = "object"
    /\ heap[value.id].kind.retryable = "true"

IsRetryableStructuredError(value) ==
    /\ IsStructuredError(value)
    /\ heap[value.id].kind.retryable = "true"

(***************************************************************************)
(* Predicates handed to the traversal functions.                           *)
(*   alwaysTrue                  () => true                               *)
(*   isRetryableStructuredError  the guard of traversal/guards.ts           *)
(*   codedAndRetryable           (e) => e.code.length > 0 && e.retryable === true, *)
(*                               which throws a TypeError on null, on       *)
(*                               undefined and on any value without a code  *)
(***************************************************************************)
Predicates == {"alwaysTrue", "isRetryableStructuredError", "codedAndRetryable"}

PredicateError == "TypeError: Cannot read properties of undefined (reading 'length')"

\* The predicate throws on e.
Throws(predicate, e) ==
    /\ predicate = "codedAndRetryable"
    /\ (e.tag # "object" \/ ~heap[e.id].kind.shape)

\* What the predicate returns on e, when it does not throw.
Apply(predicate, e) ==
    CASE predicate = "alwaysTrue" -> TRUE
      [] predicate = "isRetryableStructuredError" -> IsRetryableStructuredError(e)
      [] predicate = "codedAndRetryable" ->
           /\ e.tag = "object"
           /\ heap[e.id].kind.shape
           /\ heap[e.id].kind.retryable = "true"

(***************************************************************************)
(* traverseCauseChain: the generator.  pc is "start" before the first      *)
(* next(), "yield" while suspended at `yield current`, "done" once         *)
(* finished.  GenNext is one next(): it runs the body up to the next yield.*)
(***************************************************************************)
DefaultMaxDepth == 100

CircularMessage == "Circular cause chain detected"

\* Faulty variant: the visited set lives outside the generator function, so
\* a call starts with what the call before it has visited.
NewGen_SharedSeen(error) ==
    [pc |-> "start", current |-> error, seen |-> call.gen.seen, depth |-> 0]

NewGen(error) == [pc |-> "start", current |-> error, seen |-> {}, depth |-> 0]

\* Faulty variants of the generator: one level too deep, one level too
\* shallow, and without the check of the visited set.
GenNext_OneTooDeep(g, maxDepth) ==
    IF g.pc = "start"
      THEN IF g.depth <= maxDepth + 1
             THEN [out |-> "yield", value |-> g.current, gen |-> [g EXCEPT !.pc = "yield"]]
             ELSE [out |-> "done", value |-> Undefined, gen |-> [g EXCEPT !.pc = "done"]]
    ELSE IF ~IsErrorWithCause(g.current)
      THEN [out |-> "done", value |-> Undefined, gen |-> [g EXCEPT !.pc = "done"]]
    ELSE IF g.current \in g.seen
      THEN [out |-> "throw", value |-> Undefined, gen |-> [g EXCEPT !.pc = "done"]]
    ELSE LET next == [g EXCEPT !.seen = g.seen \cup {g.current},
                               !.current = Cause(g.current),
                               !.depth = g.depth + 1]
         IN  IF next.depth <= maxDepth + 1
               THEN [out |-> "yield", value |-> next.current, gen |-> [next EXCEPT !.pc = "yield"]]
               ELSE [out |-> "done", value |-> Undefined, gen |-> [next EXCEPT !.pc = "done"]]

GenNext_OneTooShallow(g, maxDepth) ==
    IF g.pc = "start"
      THEN IF g.depth < maxDepth
             THEN [out |-> "yield", value |-> g.current, gen |-> [g EXCEPT !.pc = "yield"]]
             ELSE [out |-> "done", value |-> Undefined, gen |-> [g EXCEPT !.pc = "done"]]
    ELSE IF ~IsErrorWithCause(g.current)
      THEN [out |-> "done", value |-> Undefined, gen |-> [g EXCEPT !.pc = "done"]]
    ELSE IF g.current \in g.seen
      THEN [out |-> "throw", value |-> Undefined, gen |-> [g EXCEPT !.pc = "done"]]
    ELSE LET next == [g EXCEPT !.seen = g.seen \cup {g.current},
                               !.current = Cause(g.current),
                               !.depth = g.depth + 1]
         IN  IF next.depth < maxDepth
               THEN [out |-> "yield", value |-> next.current, gen |-> [next EXCEPT !.pc = "yield"]]
               ELSE [out |-> "done", value |-> Undefined, gen |-> [next EXCEPT !.pc = "done"]]

GenNext_NoCycleCheck(g, maxDepth) ==
    IF g.pc = "start"
      THEN IF g.depth <= maxDepth
             THEN [out |-> "yield", value |-> g.current, gen |-> [g EXCEPT !.pc = "yield"]]
             ELSE [out |-> "done", value |-> Undefined, gen |-> [g EXCEPT !.pc = "done"]]
    ELSE IF ~IsErrorWithCause(g.current)
      THEN [out |-> "done", value |-> Undefined, gen |-> [g EXCEPT !.pc = "done"]]
    ELSE LET next == [g EXCEPT !.seen = g.seen \cup {g.current},
                               !.current = Cause(g.current),
                               !.depth = g.depth + 1]
         IN  IF next.depth <= maxDepth
               THEN [out |-> "yield", value |-> next.current, gen |-> [next EXCEPT !.pc = "yield"]]
               ELSE [out |-> "done", value |-> Undefined, gen |-> [next EXCEPT !.pc = "done"]]

\* Faulty variant: the visited set compares nodes by content (the fields the
\* guards read) instead of by identity.
GenNext_SeenByContent(g, maxDepth) ==
    IF g.pc = "start"
      THEN IF g.depth <= maxDepth
             THEN [out |-> "yield", value |-> g.current, gen |-> [g EXCEPT !.pc = "yield"]]
             ELSE [out |-> "done", value |-> Undefined, gen |-> [g EXCEPT !.pc = "done"]]
    ELSE IF ~IsErrorWithCause(g.current)
      THEN [out |-> "done", value |-> Undefined, gen |-> [g EXCEPT !.pc = "done"]]
    ELSE IF \E v \in g.seen : heap[v.id].kind = heap[g.current.id].kind
      THEN [out |-> "throw", value |-> Undefined, gen |-> [g EXCEPT !.pc = "done"]]
    ELSE LET next == [g EXCEPT !.seen = g.seen \cup {g.current},
                               !.current = Cause(g.current),
                               !.depth = g.depth + 1]
         IN  IF next.depth <= maxDepth
               THEN [out |-> "yield", value |-> next.current, gen |-> [next EXCEPT !.pc = "yield"]]
               ELSE [out |-> "done", value |-> Undefined, gen |-> [next EXCEPT !.pc = "done"]]

GenNext(g, maxDepth) ==
    IF g.pc = "start"
      THEN IF g.depth <= maxDepth
             THEN [out |-> "yield", value |-> g.current, gen |-> [g EXCEPT !.pc = "yield"]]
             ELSE [out |-> "done", value |-> Undefined, gen |-> [g EXCEPT !.pc = "done"]]
    ELSE IF ~IsErrorWithCause(g.current)
      THEN [out |-> "done", value |-> Undefined, gen |-> [g EXCEPT !.pc = "done"]]
    ELSE IF g.current \in g.seen
      THEN [out |-> "throw", value |-> Undefined, gen |-> [g EXCEPT !.pc = "done"]]
    ELSE LET next == [g EXCEPT !.seen = g.seen \cup {g.current},
                               !.current = Cause(g.current),
                               !.depth = g.depth + 1]
         IN  IF next.depth <= maxDepth
               THEN [out |-> "yield", value |-> next.current, gen |-> [next EXCEPT !.pc = "yield"]]
               ELSE [out |-> "done", value |-> Undefined, gen |-> [next EXCEPT !.pc = "done"]]

(***************************************************************************)
(* The consumers.  Every exported function is a for-of loop over the       *)
(* generator; Loop names the loop a function runs.                         *)
(***************************************************************************)
Functions == {"getRootCause", "findInCauseChain", "filterCauseChain",
              "someCauseChain", "everyCauseChain",
              "isChainRetryable", "getRootCauseRetryable", "getFirstRetryableCause"}

\* Faulty variant: getRootCauseRetryable stops at the first node instead of
\* walking to the root.
Loop_RootRetryableSearches(fn) ==
    CASE fn = "getRootCause" -> "root"
      [] fn \in {"findInCauseChain", "someCauseChain", "getRootCauseRetryable",
                 "isChainRetryable", "getFirstRetryableCause"} -> "find"
      [] fn = "filterCauseChain" -> "filter"
      [] fn = "everyCauseChain" -> "every"

Loop(fn) ==
    CASE fn \in {"getRootCause", "getRootCauseRetryable"} -> "root"
      [] fn \in {"findInCauseChain", "someCauseChain",
                 "isChainRetryable", "getFirstRetryableCause"} -> "find"
      [] fn = "filterCauseChain" -> "filter"
      [] fn = "everyCauseChain" -> "every"

\* What the caller kept of an earlier call with the same arguments.
NoPrevious == [status |-> "none", results |-> <<>>, retval |-> Undefined, message |-> ""]

NewCall(fn, error, predicate, maxDepth) ==
    [fn |-> fn, error |-> error, predicate |-> predicate, maxDepth |-> maxDepth,
     gen |-> NewGen(error),
     last |-> error, results |-> <<>>,
     yielded |-> <<>>, resumed |-> 0,
     status |-> "running", retval |-> Undefined, message |-> "",
     previous |-> NoPrevious]

Idle ==
    [fn |-> "none", error |-> Undefined, predicate |-> "alwaysTrue", maxDepth |-> 0,
     gen |-> [pc |-> "done", current |-> Undefined, seen |-> {}, depth |-> 0],
     last |-> Undefined, results |-> <<>>,
     yielded |-> <<>>, resumed |-> 0,
     status |-> "idle", retval |-> Undefined, message |-> "",
     previous |-> NoPrevious]

\* Faulty variant: the root is tested with the duck-typed isRetryable.
Result_RootDuckTyped(fn, inner) ==
    CASE fn \in {"someCauseChain", "isChainRetryable"} ->
           IF inner # Undefined THEN True ELSE False
      [] fn = "getRootCauseRetryable" ->
           IF inner.tag = "object" /\ heap[inner.id].kind.retryable = "true"
             THEN True ELSE False
      [] OTHER -> inner

\* What the exported function makes of the value its loop produced.
Result(fn, inner) ==
    CASE fn \in {"someCauseChain", "isChainRetryable"} ->
           IF inner # Undefined THEN True ELSE False
      [] fn = "getRootCauseRetryable" ->
           IF IsRetryableStructuredError(inner) THEN True ELSE False
      [] OTHER -> inner

Return(c, inner) ==
    [c EXCEPT !.status = "returned", !.retval = Result(c.fn, inner)]

\* Faulty variant: the search goes through the whole chain before it answers.
Body_FindWalksOn(c, current) ==
    CASE Loop(c.fn) = "root" -> [c EXCEPT !.last = current]
      [] Loop(c.fn) = "find" -> c
      [] Loop(c.fn) = "filter" ->
           IF Apply(c.predicate, current)
             THEN [c EXCEPT !.results = Append(c.results, current)]
             ELSE c
      [] Loop(c.fn) = "every" ->
           IF ~Apply(c.predicate, current)
             THEN Return([c EXCEPT !.gen.pc = "done"], False)
             ELSE c

\* Faulty variant: everyCauseChain answers true at the first node that
\* satisfies the predicate.
Body_EveryStopsOnMatch(c, current) ==
    IF Loop(c.fn) # "root" /\ Throws(c.predicate, current)
      THEN [c EXCEPT !.status = "threw", !.message = PredicateError, !.gen.pc = "done"]
    ELSE
    CASE Loop(c.fn) = "root" -> [c EXCEPT !.last = current]
      [] Loop(c.fn) = "find" ->
           IF Apply(c.predicate, current)
             THEN Return([c EXCEPT !.gen.pc = "done"], current)
             ELSE c
      [] Loop(c.fn) = "filter" ->
           IF Apply(c.predicate, current)
             THEN [c EXCEPT !.results = Append(c.results, current)]
             ELSE c
      [] Loop(c.fn) = "every" ->
           IF Apply(c.predicate, current)
             THEN Return([c EXCEPT !.gen.pc = "done"], True)
             ELSE Return([c EXCEPT !.gen.pc = "done"], False)

\* Faulty variant: filterCauseChain puts each match in front of the results.
Body_FilterPrepends(c, current) ==
    IF Loop(c.fn) # "root" /\ Throws(c.predicate, current)
      THEN [c EXCEPT !.status = "threw", !.message = PredicateError, !.gen.pc = "done"]
    ELSE
    CASE Loop(c.fn) = "root" -> [c EXCEPT !.last = current]
      [] Loop(c.fn) = "find" ->
           IF Apply(c.predicate, current)
             THEN Return([c EXCEPT !.gen.pc = "done"], current)
             ELSE c
      [] Loop(c.fn) = "filter" ->
           IF Apply(c.predicate, current)
             THEN [c EXCEPT !.results = <<current>> \o c.results]
             ELSE c
      [] Loop(c.fn) = "every" ->
           IF ~Apply(c.predicate, current)
             THEN Return([c EXCEPT !.gen.pc = "done"], False)
             ELSE c

\* Faulty variant: an exception of the predicate is caught and taken for
\* false.
Body_SwallowsPredicateError(c, current) ==
    CASE Loop(c.fn) = "root" -> [c EXCEPT !.last = current]
      [] Loop(c.fn) = "find" ->
           IF ~Throws(c.predicate, current) /\ Apply(c.predicate, current)
             THEN Return([c EXCEPT !.gen.pc = "done"], current)
             ELSE c
      [] Loop(c.fn) = "filter" ->
           IF ~Throws(c.predicate, current) /\ Apply(c.predicate, current)
             THEN [c EXCEPT !.results = Append(c.results, current)]
             ELSE c
      [] Loop(c.fn) = "every" ->
           IF Throws(c.predicate, current) \/ ~Apply(c.predicate, current)
             THEN Return([c EXCEPT !.gen.pc = "done"], False)
             ELSE c

\* The loop body, run on the value the generator yielded.  A return from
\* inside the loop closes the generator, and so does an exception of the
\* predicate, which no loop catches.
Body(c, current) ==
    IF Loop(c.fn) # "root" /\ Throws(c.predicate, current)
      THEN [c EXCEPT !.status = "threw", !.message = PredicateError, !.gen.pc = "done"]
    ELSE
    CASE Loop(c.fn) = "root" -> [c EXCEPT !.last = current]
      [] Loop(c.fn) = "find" ->
           IF Apply(c.predicate, current)
             THEN Return([c EXCEPT !.gen.pc = "done"], current)
             ELSE c
      [] Loop(c.fn) = "filter" ->
           IF Apply(c.predicate, current)
             THEN [c EXCEPT !.results = Append(c.results, current)]
             ELSE c
      [] Loop(c.fn) = "every" ->
           IF ~Apply(c.predicate, current)
             THEN Return([c EXCEPT !.gen.pc = "done"], False)
             ELSE c

\* The statement after the loop.
AfterLoop(c) ==
    CASE Loop(c.fn) = "root" -> Return(c, c.last)
      [] Loop(c.fn) = "find" -> Return(c, Undefined)
      [] Loop(c.fn) = "filter" -> Return(c, Array(Len(c.results)))
      [] Loop(c.fn) = "every" -> Return(c, True)

\* One turn of the for-of loop: resume the generator, then run the body on
\* what it yielded, leave the loop when it is done, or let its error escape.
Step(c) ==
    LET r == GenNext(c.gen, c.maxDepth)
        d == [c EXCEPT !.gen = r.gen, !.resumed = c.resumed + 1]
    IN  CASE r.out = "yield" ->
               Body([d EXCEPT !.yielded = Append(c.yielded, r.value)], r.value)
          [] r.out = "done" -> AfterLoop(d)
          [] r.out = "throw" ->
               [d EXCEPT !.status = "threw", !.message = CircularMessage]

(***************************************************************************)
(* ErrorResponseBuilder.  A builder is an object with one field, state;    *)
(* state.ctx and state.details are references to objects (maps from keys   *)
(* to values), so that a method writing into the receiver's ctx instead of *)
(* copying it would show in the receiver.                                  *)
(***************************************************************************)
EmptyMap == [k \in {} |-> Undefined]

NoResponse == [isSuccess |-> FALSE, error |-> EmptyMap]

NoBuilders ==
    [objects |-> <<>>, builders |-> <<>>,
     last |-> [method |-> "none", receiver |-> 0, result |-> 0],
     response |-> NoResponse]

(***************************************************************************)
(* The user messages of a BaseError: _defaultUserMessage, the map          *)
(* _localizedMessages (a function from the language codes it holds to      *)
(* their messages) and, for the method called last, what it was given,     *)
(* what the error held before, and how it ended.                           *)
(***************************************************************************)
String(i) == [tag |-> "string", id |-> i]

Langs == {String(i) : i \in 1..NumLang}

Messages == {String(i) : i \in 1..NumMsg}

\* The empty string: a string like any other as a key of the map, and falsy
\* in a condition.
EmptyString == String(0)

\* What a caller can pass as a language code.
LangArgs == Langs \cup {EmptyString}

\* JavaScript truthiness of an optional string.
Truthy(v) == v # Undefined /\ v # EmptyString

\* The error object itself, as the value a chaining method returns.
This == [tag |-> "this", id |-> 0]

NoOutcome ==
    [method |-> "none", lang |-> Undefined, fallback |-> Undefined, message |-> Undefined,
     status |-> "none", retval |-> Undefined, thrown |-> <<>>,
     before |-> [default |-> Undefined, localized |-> <<>>]]

NewError ==
    [_defaultUserMessage |-> Undefined,
     _localizedMessages |-> <<>>,
     outcome |-> NoOutcome]

\* Map.prototype.has and Map.prototype.set.
MapHas(map, key) == key \in DOMAIN map

MapSet(map, key, value) ==
    [k \in DOMAIN map \cup {key} |-> IF k = key THEN value ELSE map[k]]

Called(e, method, lang, message) ==
    [method |-> method, lang |-> lang, fallback |-> Undefined, message |-> message,
     status |-> "returned", retval |-> This, thrown |-> <<>>,
     before |-> [default |-> e._defaultUserMessage, localized |-> e._localizedMessages]]

AlreadyExists(lang) ==
    <<"Localized message for language '", lang,
      "' already exists. Use updateLocalizedMessage() to modify existing messages.">>

withUserMessage(e, message) ==
    [e EXCEPT !._defaultUserMessage = message,
              !.outcome = Called(e, "withUserMessage", Undefined, message)]

\* Faulty variant: the message is stored before the duplicate is noticed.
addLocalizedMessage_SetsThenThrows(e, lang, message) ==
    IF MapHas(e._localizedMessages, lang)
      THEN [e EXCEPT !._localizedMessages = MapSet(e._localizedMessages, lang, message),
                     !.outcome = [Called(e, "addLocalizedMessage", lang, message)
                                    EXCEPT !.status = "threw", !.retval = Undefined,
                                           !.thrown = AlreadyExists(lang)]]
      ELSE [e EXCEPT !._localizedMessages = MapSet(e._localizedMessages, lang, message),
                     !.outcome = Called(e, "addLocalizedMessage", lang, message)]

\* Faulty variant: a duplicate is rejected, but its message is kept for the
\* language all the same, and a new language is stored as it should be.
addLocalizedMessage_OverwritesOnDuplicate(e, lang, message) ==
    [e EXCEPT !._localizedMessages = MapSet(e._localizedMessages, lang, message),
              !.outcome = IF MapHas(e._localizedMessages, lang)
                            THEN [Called(e, "addLocalizedMessage", lang, message)
                                    EXCEPT !.status = "threw", !.retval = Undefined,
                                           !.thrown = AlreadyExists(lang)]
                            ELSE Called(e, "addLocalizedMessage", lang, message)]

addLocalizedMessage(e, lang, message) ==
    IF MapHas(e._localizedMessages, lang)
      THEN [e EXCEPT !.outcome = [Called(e, "addLocalizedMessage", lang, message)
                                    EXCEPT !.status = "threw", !.retval = Undefined,
                                           !.thrown = AlreadyExists(lang)]]
      ELSE [e EXCEPT !._localizedMessages = MapSet(e._localizedMessages, lang, message),
                     !.outcome = Called(e, "addLocalizedMessage", lang, message)]

updateLocalizedMessage(e, lang, message) ==
    [e EXCEPT !._localizedMessages = MapSet(e._localizedMessages, lang, message),
              !.outcome = Called(e, "updateLocalizedMessage", lang, message)]

\* Faulty variant: the fallback language is tried before the preferred one.
getUserMessage_FallbackFirst(e, preferredLang, fallbackLang) ==
    LET found ==
          IF Truthy(fallbackLang) /\ MapHas(e._localizedMessages, fallbackLang)
            THEN e._localizedMessages[fallbackLang]
          ELSE IF Truthy(preferredLang) /\ MapHas(e._localizedMessages, preferredLang)
            THEN e._localizedMessages[preferredLang]
          ELSE e._defaultUserMessage
    IN  [e EXCEPT !.outcome = [Called(e, "getUserMessage", preferredLang, Undefined)
                                 EXCEPT !.fallback = fallbackLang, !.retval = found]]

\* getUserMessage(options): a call without options is the call with both
\* languages undefined.
getUserMessage(e, preferredLang, fallbackLang) ==
    LET found ==
          IF Truthy(preferredLang) /\ MapHas(e._localizedMessages, preferredLang)
            THEN e._localizedMessages[preferredLang]
          ELSE IF Truthy(fallbackLang) /\ MapHas(e._localizedMessages, fallbackLang)
            THEN e._localizedMessages[fallbackLang]
          ELSE e._defaultUserMessage
    IN  [e EXCEPT !.outcome = [Called(e, "getUserMessage", preferredLang, Undefined)
                                 EXCEPT !.fallback = fallbackLang, !.retval = found]]

WithUserMessage ==
    /\ \E message \in Messages : err' = withUserMessage(err, message)
    /\ UNCHANGED <<heap, call, bld>>

AddLocalizedMessage ==
    /\ \E lang \in LangArgs, message \in Messages : err' = addLocalizedMessage(err, lang, message)
    /\ UNCHANGED <<heap, call, bld>>

UpdateLocalizedMessage ==
    /\ \E lang \in LangArgs, message \in Messages : err' = updateLocalizedMessage(err, lang, message)
    /\ UNCHANGED <<heap, call, bld>>

GetUserMessage ==
    /\ \E preferredLang \in LangArgs \cup {Undefined}, fallbackLang \in LangArgs \cup {Undefined} :
         err' = getUserMessage(err, preferredLang, fallbackLang)
    /\ UNCHANGED <<heap, call, bld>>

\* A fresh BaseError and the methods called on it, in any order.
MessageInit ==
    /\ heap = <<>>
    /\ call = Idle
    /\ err = NewError
    /\ bld = NoBuilders

MessageNext ==
    \/ WithUserMessage
    \/ AddLocalizedMessage
    \/ UpdateLocalizedMessage
    \/ GetUserMessage

MessageSpec == MessageInit /\ [][MessageNext]_vars

(***************************************************************************)
(* The methods of ErrorResponseBuilder.  Each takes the builders and       *)
(* objects s and the receiver b, and gives them after the call.            *)
(***************************************************************************)
Number(n) == [tag |-> "number", id |-> n]

\* { ...a, ...b }
Spread(a, b) == [k \in DOMAIN a \cup DOMAIN b |-> IF k \in DOMAIN b THEN b[k] ELSE a[k]]

\* errorResponse({code, category, retryable}): a builder with a fresh, empty
\* ctx and details.
errorResponse(code, category, retryable) ==
    [objects |-> <<EmptyMap, EmptyMap>>,
     builders |-> <<[code |-> code, category |-> category, retryable |-> retryable,
                     traceId |-> Undefined, ctx |-> 1, details |-> 2]>>,
     last |-> [method |-> "errorResponse", receiver |-> 0, result |-> 1],
     response |-> NoResponse]

\* new ErrorResponseBuilder(state), as the result of method called on b.
Construct(s, objects, state, method, b) ==
    [s EXCEPT !.objects = objects,
              !.builders = Append(s.builders, state),
              !.last = [method |-> method, receiver |-> b, result |-> Len(s.builders) + 1]]

\* new ErrorResponseBuilder({ ...this.state, ctx: { ...this.state.ctx, ...fields } })
WithCtxFields(s, b, fields, method) ==
    LET this == s.builders[b]
    IN  Construct(s, Append(s.objects, Spread(s.objects[this.ctx], fields)),
                  [this EXCEPT !.ctx = Len(s.objects) + 1], method, b)

\* Faulty variant: the status is written into the receiver's ctx, which the
\* new builder then shares.
httpStatus_WritesIntoReceiver(s, b, code) ==
    LET this == s.builders[b]
    IN  Construct(s, [s.objects EXCEPT ![this.ctx] = Spread(@, [httpStatusCode |-> code])],
                  this, "httpStatus", b)

httpStatus(s, b, code) == WithCtxFields(s, b, [httpStatusCode |-> code], "httpStatus")

message(s, b, msg) == WithCtxFields(s, b, [message |-> msg], "message")

localized(s, b, locale, msg) ==
    WithCtxFields(s, b, [messageLocalized |-> [locale |-> locale, message |-> msg]], "localized")

traceId(s, b, id) ==
    Construct(s, s.objects, [s.builders[b] EXCEPT !.traceId = id], "traceId", b)

\* details(details): the state keeps the caller's object itself.
details(s, b, d) ==
    Construct(s, s.objects, [s.builders[b] EXCEPT !.details = d], "details", b)

withCtx(s, b, ctx) == WithCtxFields(s, b, ctx, "withCtx")

\* build(): the response refers to the ctx and details objects of the state;
\* what it holds is read through those references.
build(s, b) ==
    LET this == s.builders[b]
        base == [code |-> this.code, category |-> this.category,
                 retryable |-> this.retryable,
                 ctx |-> s.objects[this.ctx], details |-> s.objects[this.details]]
    IN  [isSuccess |-> FALSE,
         error |-> IF this.traceId # Undefined
                     THEN Spread(base, [traceId |-> this.traceId])
                     ELSE base]

Builders == 1..Len(bld.builders)

CanConstruct == Len(bld.builders) < MaxBuilders

StatusCodes == {Number(400), Number(404)}

CtxArgs == {EmptyMap, [requestId |-> String(1)], [httpStatusCode |-> Number(500)]}

DetailsArgs == {EmptyMap, [userId |-> String(1)]}

HttpStatus ==
    /\ CanConstruct
    /\ \E b \in Builders, code \in StatusCodes : bld' = httpStatus(bld, b, code)
    /\ UNCHANGED <<heap, call, err>>

Message ==
    /\ CanConstruct
    /\ \E b \in Builders, msg \in Messages : bld' = message(bld, b, msg)
    /\ UNCHANGED <<heap, call, err>>

Localized ==
    /\ CanConstruct
    /\ \E b \in Builders, locale \in Langs, msg \in Messages :
         bld' = localized(bld, b, locale, msg)
    /\ UNCHANGED <<heap, call, err>>

TraceId ==
    /\ CanConstruct
    /\ \E b \in Builders, id \in Messages : bld' = traceId(bld, b, id)
    /\ UNCHANGED <<heap, call, err>>

\* The caller makes the details object and hands it over.
Details ==
    /\ CanConstruct
    /\ \E b \in Builders, d \in DetailsArgs :
         bld' = details([bld EXCEPT !.objects = Append(@, d)], b, Len(bld.objects) + 1)
    /\ UNCHANGED <<heap, call, err>>

WithCtx ==
    /\ CanConstruct
    /\ \E b \in Builders, ctx \in CtxArgs : bld' = withCtx(bld, b, ctx)
    /\ UNCHANGED <<heap, call, err>>

Build ==
    /\ \E b \in Builders :
         bld' = [bld EXCEPT !.response = build(bld, b),
                            !.last = [method |-> "build", receiver |-> b, result |-> 0]]
    /\ UNCHANGED <<heap, call, err>>

BuilderInit ==
    /\ heap = <<>>
    /\ call = Idle
    /\ err = NewError
    /\ \E retryable \in BOOLEAN : bld = errorResponse("ERROR", "TEST", retryable)

BuilderNext ==
    \/ HttpStatus
    \/ Message
    \/ Localized
    \/ TraceId
    \/ Details
    \/ WithCtx
    \/ Build

BuilderSpec == BuilderInit /\ [][BuilderNext]_vars

(***************************************************************************)
(* Heaps.  Every object has one cause slot, so what a traversal can reach  *)
(* is a path that ends in a value without cause or closes into a cycle.    *)
(* Objects are numbered along that path: object i is caused by object i+1, *)
(* and the last object either has no cause key, or holds a value that is   *)
(* not an object, or points back to an object of the path.                 *)
(***************************************************************************)
LastLinks(n) ==
    {[hasCause |-> FALSE, cause |-> Undefined]}
      \cup {[hasCause |-> TRUE, cause |-> v] : v \in NonObjects}
      \cup {[hasCause |-> TRUE, cause |-> Obj(j)] : j \in 1..n}

HeapsOf(kindSet) ==
    UNION {
      {[i \in 1..n |->
          [hasCause |-> IF i < n THEN TRUE ELSE link.hasCause,
           cause |-> IF i < n THEN Obj(i + 1) ELSE link.cause,
           kind |-> kinds[i]]] :
        link \in LastLinks(n), kinds \in [1..n -> kindSet]} :
      n \in 0..NumObj}

\* maxDepth arguments: every depth a heap of NumObj objects can tell apart,
\* and a negative one.
MaxDepths == -1..NumObj

Init ==
    /\ heap \in HeapsOf(Kinds)
    /\ call = Idle
    /\ err = NewError
    /\ bld = NoBuilders

(***************************************************************************)
(* Actions: a call of each exported function, and the turns of its loop.   *)
(***************************************************************************)
CanCall == call.status = "idle"

GetRootCause ==
    /\ CanCall
    /\ \E error \in Values, maxDepth \in MaxDepths \cup {DefaultMaxDepth} :
         call' = NewCall("getRootCause", error, "alwaysTrue", maxDepth)
    /\ UNCHANGED <<heap, err, bld>>

FindInCauseChain ==
    /\ CanCall
    /\ \E error \in Values, predicate \in Predicates,
          maxDepth \in MaxDepths \cup {DefaultMaxDepth} :
         call' = NewCall("findInCauseChain", error, predicate, maxDepth)
    /\ UNCHANGED <<heap, err, bld>>

FilterCauseChain ==
    /\ CanCall
    /\ \E error \in Values, predicate \in Predicates,
          maxDepth \in MaxDepths \cup {DefaultMaxDepth} :
         call' = NewCall("filterCauseChain", error, predicate, maxDepth)
    /\ UNCHANGED <<heap, err, bld>>

\* The caller calls filterCauseChain a second time with the arguments of the
\* call that just ended, and keeps what the first call gave.
FilterCauseChainAgain ==
    /\ call.fn = "filterCauseChain"
    /\ call.status \in {"returned", "threw"}
    /\ call.previous = NoPrevious
    /\ call' = [NewCall("filterCauseChain", call.error, call.predicate, call.maxDepth)
                  EXCEPT !.previous = [status |-> call.status, results |-> call.results,
                                       retval |-> call.retval, message |-> call.message]]
    /\ UNCHANGED <<heap, err, bld>>

SomeCauseChain ==
    /\ CanCall
    /\ \E error \in Values, predicate \in Predicates,
          maxDepth \in MaxDepths \cup {DefaultMaxDepth} :
         call' = NewCall("someCauseChain", error, predicate, maxDepth)
    /\ UNCHANGED <<heap, err, bld>>

EveryCauseChain ==
    /\ CanCall
    /\ \E error \in Values, predicate \in Predicates,
          maxDepth \in MaxDepths \cup {DefaultMaxDepth} :
         call' = NewCall("everyCauseChain", error, predicate, maxDepth)
    /\ UNCHANGED <<heap, err, bld>>

IsChainRetryable ==
    /\ CanCall
    /\ \E error \in Values :
         call' = NewCall("isChainRetryable", error, "isRetryableStructuredError", DefaultMaxDepth)
    /\ UNCHANGED <<heap, err, bld>>

GetRootCauseRetryable ==
    /\ CanCall
    /\ \E error \in Values :
         call' = NewCall("getRootCauseRetryable", error, "alwaysTrue", DefaultMaxDepth)
    /\ UNCHANGED <<heap, err, bld>>

GetFirstRetryableCause ==
    /\ CanCall
    /\ \E error \in Values :
         call' = NewCall("getFirstRetryableCause", error, "isRetryableStructuredError", DefaultMaxDepth)
    /\ UNCHANGED <<heap, err, bld>>

Iterate ==
    /\ call.status = "running"
    /\ call' = Step(call)
    /\ UNCHANGED <<heap, err, bld>>

Next ==
    \/ GetRootCause
    \/ FindInCauseChain
    \/ FilterCauseChain
    \/ FilterCauseChainAgain
    \/ SomeCauseChain
    \/ EveryCauseChain
    \/ IsChainRetryable
    \/ GetRootCauseRetryable
    \/ GetFirstRetryableCause
    \/ Iterate

Spec == Init /\ [][Next]_vars

\* A call runs to completion: nothing but the loop's next turn can happen
\* while it is running, and JavaScript runs it without suspension.  The
\* kind of an object does not steer the generator; two kinds suffice to make
\* the predicates match and fail.
InitLive ==
    /\ heap \in HeapsOf({StructuredRetryable, StructuredNotRetryable})
    /\ call = Idle
    /\ err = NewError
    /\ bld = NoBuilders

LiveSpec == InitLive /\ [][Next]_vars /\ WF_vars(Iterate)

(***************************************************************************)
(* BaseError.toJSON and its serialization of the cause.  The objects of    *)
(* the heap that are StructuredError instances are the Error instances     *)
(* (StructuredError extends BaseError extends Error), the others are plain *)
(* objects.  A serialized cause is written as the sequence of its nested   *)
(* levels.  `stack` is the number of calls the call stack still holds.     *)
(***************************************************************************)
StackOverflow == "RangeError: Maximum call stack size exceeded"

\* cause instanceof Error
InstanceOfError(v) == v.tag = "object" /\ heap[v.id].kind.structured

RECURSIVE serializeCause(_, _)
RECURSIVE StringifyThrows(_, _, _)

\* JSON.stringify(v) throws: TypeError when the walk through the enumerable
\* properties comes back to an object it is inside of, or whatever the
\* toJSON of a BaseError among them throws.
StringifyThrows(v, ancestors, stack) ==
    IF stack = 0 THEN TRUE
    ELSE IF v.tag # "object" THEN FALSE
    ELSE IF InstanceOfError(v) THEN ~serializeCause(Cause(v), stack - 1).ok
    ELSE IF v \in ancestors THEN TRUE
    ELSE IF HasCauseKey(v) THEN StringifyThrows(Cause(v), ancestors \cup {v}, stack - 1)
    ELSE FALSE

\* #serializeCause(cause): ok is FALSE when the call ends in an exception.
serializeCause(cause, stack) ==
    IF stack = 0 THEN [ok |-> FALSE, json |-> <<>>]
    ELSE IF cause = Undefined \/ cause = Null THEN [ok |-> TRUE, json |-> <<cause.tag>>]
    ELSE IF InstanceOfError(cause)
      THEN IF HasCauseKey(cause) /\ Cause(cause) # Undefined
             THEN LET nested == serializeCause(Cause(cause), stack - 1)
                  IN  [ok |-> nested.ok, json |-> <<"Error">> \o nested.json]
             ELSE [ok |-> TRUE, json |-> <<"Error">>]
    ELSE IF cause.tag = "object"
      THEN IF StringifyThrows(cause, {}, stack - 1)
             THEN [ok |-> TRUE, json |-> <<"[Circular Object]">>]
             ELSE [ok |-> TRUE, json |-> <<"JSON copy">>]
    ELSE [ok |-> TRUE, json |-> <<cause.tag>>]

\* this.toJSON(), as a finished call.
toJSON(this) ==
    LET cause == serializeCause(Cause(this), StackLimit - 1)
    IN  [Idle EXCEPT !.fn = "toJSON", !.error = this,
                     !.status = IF cause.ok THEN "returned" ELSE "threw",
                     !.results = IF cause.ok THEN cause.json ELSE <<>>,
                     !.message = IF cause.ok THEN "" ELSE StackOverflow]

ToJSON ==
    /\ CanCall
    /\ \E this \in Objects : InstanceOfError(this) /\ call' = toJSON(this)
    /\ UNCHANGED <<heap, err, bld>>

JsonSpec == Init /\ [][ToJSON]_vars


\* The loop of a call run to its end.
RECURSIVE Run(_)
Run(c) == IF c.status = "running" THEN Run(Step(c)) ELSE c

(***************************************************************************)
(* The cause chain as the specification describes it, read off the heap:   *)
(* the distinct nodes met by following `cause` from start, and whether the *)
(* last of them points back into the chain.                                *)
(***************************************************************************)
RECURSIVE ChainFrom(_, _)
ChainFrom(v, nodes) ==
    IF v.tag # "object" \/ ~heap[v.id].hasCause
      THEN [nodes |-> Append(nodes, v), cyclic |-> FALSE]
    ELSE IF \E i \in 1..Len(nodes) : nodes[i] = v
      THEN [nodes |-> nodes, cyclic |-> TRUE]
    ELSE ChainFrom(heap[v.id].cause, Append(nodes, v))

Chain(start) == ChainFrom(start, <<>>)

Finished == call.status \in {"returned", "threw"}

Min(a, b) == IF a <= b THEN a ELSE b

\* Positions of the chain's nodes that lie within the depth bound.
Bounded(nodes, maxDepth) == 1..Min(Len(nodes), maxDepth + 1)

TraversalFunctions ==
    {"getRootCause", "findInCauseChain", "filterCauseChain", "someCauseChain", "everyCauseChain"}

(***************************************************************************)
(* C1: for every start value and every maxDepth >= 0, a call of            *)
(* getRootCause, findInCauseChain, filterCauseChain, someCauseChain or     *)
(* everyCauseChain visits at most maxDepth + 1 nodes and resumes the       *)
(* generator at most maxDepth + 2 times, so it returns or raises; a call   *)
(* that raised raised the circular-chain error, unless the predicate       *)
(* itself threw on the node just visited.  Checked under LiveSpec.         *)
(***************************************************************************)
BoundedTraversal ==
    (call.fn \in TraversalFunctions /\ call.maxDepth >= 0) =>
        /\ Len(call.yielded) <= call.maxDepth + 1
        /\ call.resumed <= call.maxDepth + 2
        /\ call.resumed <= Len(call.yielded) + 1
        /\ call.status = "threw" =>
             \/ call.message = CircularMessage
             \/ /\ call.message = PredicateError
                /\ Throws(call.predicate, call.yielded[Len(call.yielded)])

C1_Termination ==
    /\ []BoundedTraversal
    /\ (call.status = "running") ~> Finished

C1_Witness ==
    /\ call.fn \in TraversalFunctions
    /\ call.status = "threw"
    /\ Len(call.yielded) = call.maxDepth + 1
    /\ call.maxDepth >= 2

(***************************************************************************)
(* C2: when A.cause = B and B.cause = A, getRootCause with the default     *)
(* maxDepth raises 'Circular cause chain detected' from either node: it    *)
(* returns nothing, and it stops after yielding A, B and A again.          *)
(***************************************************************************)
C2_CircularPairRaises ==
    \A a, b \in DOMAIN heap :
        ( /\ a # b
          /\ heap[a].hasCause /\ heap[a].cause = Obj(b)
          /\ heap[b].hasCause /\ heap[b].cause = Obj(a)
          /\ call.fn = "getRootCause"
          /\ call.maxDepth = DefaultMaxDepth
          /\ call.error \in {Obj(a), Obj(b)} ) =>
            /\ Len(call.yielded) <= 3
            /\ Finished => (call.status = "threw" /\ call.message = CircularMessage)

C2_Witness ==
    \E a, b \in DOMAIN heap :
        /\ a < b
        /\ heap[a].hasCause /\ heap[a].cause = Obj(b)
        /\ heap[b].hasCause /\ heap[b].cause = Obj(a)
        /\ call.fn = "getRootCause"
        /\ call.maxDepth = DefaultMaxDepth
        /\ call.error = Obj(b)
        /\ call.status = "threw"

\* The first position of the bounded chain whose node satisfies the predicate.
Matches(nodes, predicate, maxDepth) ==
    {i \in Bounded(nodes, maxDepth) : Apply(predicate, nodes[i])}

First(S) == CHOOSE i \in S : \A j \in S : i <= j

\* The predicate throws on a node in front of position i.
ThrowsBefore(nodes, predicate, i) ==
    \E j \in 1..(i - 1) : Throws(predicate, nodes[j])

(***************************************************************************)
(* C3: findInCauseChain returns the first node of the chain, within the    *)
(* depth bound, that satisfies the predicate, and does not raise, also     *)
(* when the chain is circular behind that node (the predicate returning    *)
(* false on every node in front of it).                                    *)
(***************************************************************************)
C3_FindReturnsFirstMatch ==
    (call.fn = "findInCauseChain" /\ Finished) =>
        LET nodes == Chain(call.error).nodes
            found == Matches(nodes, call.predicate, call.maxDepth)
        IN  (found # {} /\ ~ThrowsBefore(nodes, call.predicate, First(found))) =>
              /\ call.status = "returned"
              /\ call.retval = nodes[First(found)]

C3_Witness ==
    /\ call.fn = "findInCauseChain"
    /\ call.status = "returned"
    /\ Chain(call.error).cyclic
    /\ call.retval # Undefined
    /\ call.retval # call.error

(***************************************************************************)
(* C4: when the chain from start comes back to a visited node within the   *)
(* depth bound and none of its nodes satisfies the predicate,              *)
(* (the predicate returning false on each of them), findInCauseChain       *)
(* raises the circular-chain error and returns nothing.                    *)
(***************************************************************************)
C4_FindRaisesOnCycleWithoutMatch ==
    (call.fn = "findInCauseChain" /\ Finished) =>
        LET chain == Chain(call.error)
        IN  ( /\ chain.cyclic
              /\ Len(chain.nodes) <= call.maxDepth
              /\ \A i \in 1..Len(chain.nodes) : ~Throws(call.predicate, chain.nodes[i])
              /\ Matches(chain.nodes, call.predicate, call.maxDepth) = {} ) =>
                /\ call.status = "threw"
                /\ call.message = CircularMessage

C4_Witness ==
    /\ call.fn = "findInCauseChain"
    /\ call.status = "threw"
    /\ call.predicate = "isRetryableStructuredError"
    /\ Len(Chain(call.error).nodes) = call.maxDepth

(***************************************************************************)
(* C5: on an acyclic chain of N nodes, getRootCause with maxDepth = k,     *)
(* 0 <= k < N-1, returns the node at index k (counted from 0 at the        *)
(* start), which is not the deepest node.                                  *)
(***************************************************************************)
C5_RootCauseAtDepthBound ==
    (call.fn = "getRootCause" /\ Finished) =>
        LET chain == Chain(call.error)
            N == Len(chain.nodes)
        IN  (~chain.cyclic /\ 0 <= call.maxDepth /\ call.maxDepth < N - 1) =>
              /\ call.status = "returned"
              /\ call.retval = chain.nodes[call.maxDepth + 1]
              /\ call.retval # chain.nodes[N]

C5_Witness ==
    /\ call.fn = "getRootCause"
    /\ call.status = "returned"
    /\ ~Chain(call.error).cyclic
    /\ call.maxDepth >= 1
    /\ call.maxDepth < Len(Chain(call.error).nodes) - 1

(***************************************************************************)
(* C6: on an acyclic chain with more nodes than maxDepth and a predicate   *)
(* that accepts every node, filterCauseChain returns exactly maxDepth      *)
(* nodes.                                                                  *)
(***************************************************************************)
C6_FilterReturnsMaxDepthNodes ==
    (call.fn = "filterCauseChain" /\ Finished) =>
        LET chain == Chain(call.error)
        IN  ( /\ ~chain.cyclic
              /\ call.predicate = "alwaysTrue"
              /\ 0 <= call.maxDepth
              /\ call.maxDepth < Len(chain.nodes) ) =>
                /\ call.status = "returned"
                /\ Len(call.results) = call.maxDepth

\* A value that carries no cause: anything but an object with a cause key.
NoCause(v) == v \in NonObjects \/ ~heap[v.id].hasCause

(***************************************************************************)
(* C7: for every x without a cause (an object without a cause key, a       *)
(* primitive, null or undefined) and every maxDepth >= 0,                  *)
(* getRootCause(x, maxDepth) returns x itself, having visited only x.      *)
(***************************************************************************)
C7_RootCauseOfCauselessIsItself ==
    (call.fn = "getRootCause" /\ Finished /\ call.maxDepth >= 0 /\ NoCause(call.error)) =>
        /\ call.status = "returned"
        /\ call.retval = call.error
        /\ call.yielded = <<call.error>>

C7_Witness ==
    /\ call.fn = "getRootCause"
    /\ call.status = "returned"
    /\ call.error \in Objects
    /\ NoCause(call.error)
    /\ call.retval = call.error

(***************************************************************************)
(* C8: when a visited node within the depth bound carries a cause key      *)
(* whose value is null, undefined, a primitive or an object without a      *)
(* cause key, that value is the last node of the chain: it is yielded      *)
(* exactly once, right after its holder, getRootCause returns it and not   *)
(* the holder, and nothing is raised.                                      *)
(***************************************************************************)
C8_TerminalCauseIsRoot ==
    (call.fn = "getRootCause" /\ Finished) =>
        \A i \in 1..Len(call.yielded) :
            LET holder == call.yielded[i]
            IN  ( /\ holder \in Objects
                  /\ heap[holder.id].hasCause
                  /\ NoCause(heap[holder.id].cause)
                  /\ i <= call.maxDepth ) =>
                    LET value == heap[holder.id].cause
                    IN  /\ call.status = "returned"
                        /\ call.retval = value
                        /\ call.retval # holder
                        /\ Len(call.yielded) = i + 1
                        /\ call.yielded[i + 1] = value
                        /\ Cardinality({j \in 1..Len(call.yielded) : call.yielded[j] = value}) = 1

C8_Witness ==
    /\ call.fn = "getRootCause"
    /\ call.status = "returned"
    /\ call.retval = Null
    /\ Len(call.yielded) = 3

(***************************************************************************)
(* C9: retryability is monotone: when getRootCauseRetryable(start) returns *)
(* true and isChainRetryable(start) does not raise, isChainRetryable(start)*)
(* returns true.                                                           *)
(***************************************************************************)
C9_RootRetryableImpliesChainRetryable ==
    (call.fn = "getRootCauseRetryable" /\ call.status = "returned" /\ call.retval = True) =>
        LET chainCall == Run(NewCall("isChainRetryable", call.error,
                                     "isRetryableStructuredError", DefaultMaxDepth))
        IN  chainCall.status = "returned" => chainCall.retval = True

C9_Witness ==
    /\ call.fn = "getRootCauseRetryable"
    /\ call.status = "returned"
    /\ call.retval = True
    /\ Len(call.yielded) = 3

RetryableStructured(v) ==
    /\ v \in Objects
    /\ heap[v.id].kind.structured
    /\ heap[v.id].kind.retryable = "true"

RetryableShape(v) ==
    /\ v.tag = "object"
    /\ heap[v.id].kind.shape
    /\ heap[v.id].kind.retryable = "true"

(***************************************************************************)
(* C13: a chain that holds, within the depth bound, a plain object with a  *)
(* string code, a string category and retryable === true is retryable:     *)
(* isChainRetryable returns true and getFirstRetryableCause returns the     *)
(* outermost such object.  The code does not do this.                      *)
(***************************************************************************)
C13_PlainShapeIsRetryable ==
    (call.fn \in {"isChainRetryable", "getFirstRetryableCause"} /\ Finished) =>
        LET nodes == Chain(call.error).nodes
            shaped == {i \in Bounded(nodes, DefaultMaxDepth) : RetryableShape(nodes[i])}
        IN  shaped # {} =>
              /\ call.status = "returned"
              /\ call.fn = "isChainRetryable" => call.retval = True
              /\ call.fn = "getFirstRetryableCause" => call.retval = nodes[First(shaped)]

(***************************************************************************)
(* C14: someCauseChain returns true when a node of the bounded chain       *)
(* satisfies the predicate, whatever the nodes are (objects, primitives,   *)
(* null, undefined), and when it returns, it returns true only then.  The  *)
(* code does not do this when the node that satisfies the predicate is     *)
(* undefined.                                                              *)
(***************************************************************************)
C14_SomeIffANodeMatches ==
    (call.fn = "someCauseChain" /\ Finished) =>
        LET nodes == Chain(call.error).nodes
            found == Matches(nodes, call.predicate, call.maxDepth)
        IN  /\ (found # {} /\ ~ThrowsBefore(nodes, call.predicate, First(found))) =>
                  (call.status = "returned" /\ call.retval = True)
            /\ (call.status = "returned" /\ call.retval = True) => found # {}

\* The predicate throws on no node of the bounded chain.
Total(nodes, predicate, maxDepth) ==
    \A i \in Bounded(nodes, maxDepth) : ~Throws(predicate, nodes[i])

(***************************************************************************)
(* C15: on a chain without cycle and with maxDepth >= 0, everyCauseChain   *)
(* returns true exactly when every node of the bounded chain satisfies the *)
(* predicate (the predicate throwing on none of them); for a start value   *)
(* without cause that is exactly when the start value satisfies it.        *)
(***************************************************************************)
C15_EveryIffAllNodesMatch ==
    (call.fn = "everyCauseChain" /\ Finished /\ call.maxDepth >= 0) =>
        LET chain == Chain(call.error)
            nodes == chain.nodes
        IN  (~chain.cyclic /\ Total(nodes, call.predicate, call.maxDepth)) =>
              /\ call.status = "returned"
              /\ call.retval \in {True, False}
              /\ call.retval = True <=>
                   \A i \in Bounded(nodes, call.maxDepth) : Apply(call.predicate, nodes[i])
              /\ NoCause(call.error) =>
                   (call.retval = True <=> Apply(call.predicate, call.error))

C15_Witness ==
    /\ call.fn = "everyCauseChain"
    /\ call.status = "returned"
    /\ call.retval = False
    /\ call.error = Obj(1)
    /\ ~Chain(call.error).cyclic
    /\ call.predicate = "isRetryableStructuredError"
    /\ Len(call.yielded) = 2
    /\ Apply(call.predicate, Obj(1))

(***************************************************************************)
(* C16: on a chain without cycle, filterCauseChain returns the nodes of    *)
(* the bounded chain that satisfy the predicate, each once and in chain    *)
(* order, outermost first; it returns the empty array when none does.      *)
(***************************************************************************)
C16_FilterReturnsMatchesInOrder ==
    (call.fn = "filterCauseChain" /\ Finished) =>
        LET chain == Chain(call.error)
            nodes == chain.nodes
            bounded == SubSeq(nodes, 1, Min(Len(nodes), call.maxDepth + 1))
            Test(v) == Apply(call.predicate, v)
        IN  (~chain.cyclic /\ Total(nodes, call.predicate, call.maxDepth)) =>
              /\ call.status = "returned"
              /\ call.results = SelectSeq(bounded, Test)
              /\ call.retval = Array(Len(call.results))
              /\ \A i, j \in 1..Len(call.results) :
                   call.results[i] = call.results[j] => i = j
              /\ Matches(nodes, call.predicate, call.maxDepth) = {} => call.results = <<>>

C16_Witness ==
    /\ call.fn = "filterCauseChain"
    /\ call.status = "returned"
    /\ call.previous = NoPrevious
    /\ ~Chain(call.error).cyclic
    /\ call.results = <<Obj(1), Obj(3)>>

(***************************************************************************)
(* C18: when the predicate throws on a node, findInCauseChain,             *)
(* filterCauseChain, someCauseChain and everyCauseChain end with the       *)
(* predicate's exception, that node is the last one the predicate was      *)
(* applied to, and nothing is returned.                                    *)
(***************************************************************************)
C18_ThrowingPredicateAborts ==
    (call.fn \in {"findInCauseChain", "filterCauseChain", "someCauseChain", "everyCauseChain"}
       /\ Finished) =>
        /\ \A i \in 1..Len(call.yielded) :
              Throws(call.predicate, call.yielded[i]) =>
                /\ call.status = "threw"
                /\ call.message = PredicateError
                /\ i = Len(call.yielded)
        /\ call.status = "threw" => call.retval = Undefined

C18_Witness ==
    /\ call.fn = "filterCauseChain"
    /\ call.status = "threw"
    /\ call.message = PredicateError
    /\ call.previous = NoPrevious
    /\ DOMAIN heap = 1..3
    /\ call.error = Obj(1)
    /\ call.maxDepth >= 2
    /\ call.yielded = <<Obj(1), Obj(2)>>
    /\ call.results = <<Obj(1)>>

(***************************************************************************)
(* C19: on a chain without cycle whose only nodes satisfying the predicate *)
(* lie deeper than index maxDepth, findInCauseChain returns undefined and  *)
(* someCauseChain returns false; neither raises.                           *)
(***************************************************************************)
C19_MatchBeyondDepthIsNotFound ==
    (call.fn \in {"findInCauseChain", "someCauseChain"} /\ Finished /\ call.maxDepth >= 0) =>
        LET chain == Chain(call.error)
            nodes == chain.nodes
        IN  ( /\ ~chain.cyclic
              /\ Total(nodes, call.predicate, call.maxDepth)
              /\ Matches(nodes, call.predicate, call.maxDepth) = {}
              /\ \E i \in (call.maxDepth + 2)..Len(nodes) :
                    ~Throws(call.predicate, nodes[i]) /\ Apply(call.predicate, nodes[i]) ) =>
              /\ call.status = "returned"
              /\ call.fn = "findInCauseChain" => call.retval = Undefined
              /\ call.fn = "someCauseChain" => call.retval = False

C19_Witness ==
    /\ call.fn = "someCauseChain"
    /\ call.status = "returned"
    /\ call.retval = False
    /\ call.maxDepth = 1
    /\ call.error = Obj(1)
    /\ DOMAIN heap = 1..3
    /\ ~heap[3].hasCause
    /\ call.predicate = "isRetryableStructuredError"
    /\ Apply(call.predicate, Obj(3))

\* A second filterCauseChain call with the arguments of the first has ended.
SecondCallEnded(c) ==
    /\ c.fn = "filterCauseChain"
    /\ c.previous # NoPrevious
    /\ c.status \in {"returned", "threw"}

(***************************************************************************)
(* C17: no step of a traversal changes the cause links, and a second       *)
(* filterCauseChain call with the same start, predicate and maxDepth ends  *)
(* as the first did: it returns an equal array, in the same order, or it   *)
(* raises the same error.                                                  *)
(***************************************************************************)
C17_FilterTwiceIsSame ==
    [][ /\ heap' = heap
        /\ SecondCallEnded(call') =>
             /\ call'.status = call'.previous.status
             /\ call'.message = call'.previous.message
             /\ call'.retval = call'.previous.retval
             /\ call'.status = "returned" => call'.results = call'.previous.results ]_vars

C17_Witness ==
    /\ SecondCallEnded(call)
    /\ call.status = "returned"
    /\ call.previous.status = "returned"
    /\ call.results = <<Obj(1), Obj(3)>>
    /\ call.gen.seen # {}

(***************************************************************************)
(* C20: addLocalizedMessage(lang, msg) on an error that already holds a    *)
(* message for lang throws 'Localized message for language ... already     *)
(* exists ...' and leaves the message stored for lang, the messages of all *)
(* other languages and the default user message as they were.              *)
(***************************************************************************)
C20_DuplicateLanguageIsRejected ==
    LET o == err.outcome
    IN  (o.method = "addLocalizedMessage" /\ MapHas(o.before.localized, o.lang)) =>
          /\ o.status = "threw"
          /\ o.thrown = AlreadyExists(o.lang)
          /\ err._localizedMessages = o.before.localized
          /\ err._localizedMessages[o.lang] = o.before.localized[o.lang]
          /\ err._defaultUserMessage = o.before.default

C20_Witness ==
    LET o == err.outcome
    IN  /\ o.method = "addLocalizedMessage"
        /\ o.status = "threw"
        /\ o.before.localized[o.lang] # o.message
        /\ DOMAIN err._localizedMessages = Langs
        /\ err._defaultUserMessage # Undefined

\* The error holds a message for the language code.
Stored(e, lang) == lang # Undefined /\ MapHas(e._localizedMessages, lang)

(***************************************************************************)
(* C21 as claimed: getUserMessage returns the message stored for           *)
(* preferredLang if one exists, else the one stored for fallbackLang if    *)
(* one exists, else the default user message (undefined when there is      *)
(* none).  The code does not do this for the empty string as language.     *)
(***************************************************************************)
C21_PreferredFallbackDefault ==
    LET o == err.outcome
    IN  o.method = "getUserMessage" =>
          o.retval = IF Stored(err, o.lang) THEN err._localizedMessages[o.lang]
                     ELSE IF Stored(err, o.fallback) THEN err._localizedMessages[o.fallback]
                     ELSE err._defaultUserMessage

(***************************************************************************)
(* C21 as amended: an empty language code counts as not given.  For a      *)
(* non-empty preferredLang with a stored message getUserMessage returns    *)
(* that message; else for a non-empty fallbackLang with a stored message   *)
(* it returns that one; else it returns the default user message, which    *)
(* is undefined when none was set.  It changes nothing on the error.       *)
(***************************************************************************)
C21_PriorityOfNonEmptyLanguages ==
    LET o == err.outcome
        preferred == o.lang # EmptyString /\ Stored(err, o.lang)
        fallback == o.fallback # EmptyString /\ Stored(err, o.fallback)
    IN  o.method = "getUserMessage" =>
          /\ preferred => o.retval = err._localizedMessages[o.lang]
          /\ (~preferred /\ fallback) => o.retval = err._localizedMessages[o.fallback]
          /\ (~preferred /\ ~fallback) => o.retval = err._defaultUserMessage
          /\ o.status = "returned"
          /\ err._localizedMessages = o.before.localized
          /\ err._defaultUserMessage = o.before.default

C21_Witness ==
    LET o == err.outcome
    IN  /\ o.method = "getUserMessage"
        /\ o.lang \in Langs /\ o.fallback \in Langs
        /\ Stored(err, o.lang) /\ Stored(err, o.fallback)
        /\ err._localizedMessages[o.lang] # err._localizedMessages[o.fallback]
        /\ err._defaultUserMessage \in Messages
        /\ err._defaultUserMessage # err._localizedMessages[o.lang]
        /\ o.retval = err._localizedMessages[o.lang]

(***************************************************************************)
(* C22: every method of ErrorResponseBuilder (httpStatus, message,         *)
(* localized, traceId, details, withCtx) returns a new builder and leaves  *)
(* every builder there was, the receiver and its ancestors among them, as  *)
(* it was: build() on it gives the response it gave before the call.       *)
(***************************************************************************)
C22_BuilderIsImmutable ==
    [][ /\ \A b \in Builders :
             /\ b \in 1..Len(bld'.builders)
             /\ bld'.builders[b] = bld.builders[b]
             /\ build(bld', b) = build(bld, b)
        /\ bld'.last.method \in {"httpStatus", "message", "localized", "traceId",
                                  "details", "withCtx"} =>
             /\ bld'.last.result = Len(bld.builders) + 1
             /\ bld'.last.result \notin Builders
             /\ Len(bld'.builders) = Len(bld.builders) + 1 ]_vars

C22_Witness ==
    /\ Len(bld.builders) = 3
    /\ bld.last.method = "message"
    /\ bld.last.receiver = 2
    /\ build(bld, 1).error.ctx = EmptyMap
    /\ DOMAIN build(bld, 2).error.ctx = {"httpStatusCode"}
    /\ DOMAIN build(bld, 3).error.ctx = {"httpStatusCode", "message"}

(***************************************************************************)
(* C23: in a single traversal no node is yielded, and so handed to the     *)
(* loop body and the predicate, more than once: reaching a visited node    *)
(* raises the circular-chain error instead of yielding the node again.     *)
(* The code does not do this: it yields the node and raises on the next    *)
(* turn.                                                                   *)
(***************************************************************************)
C23_NoNodeYieldedTwice ==
    \A i, j \in 1..Len(call.yielded) :
        call.yielded[i] = call.yielded[j] => i = j

(***************************************************************************)
(* C24: cycle detection goes by identity.  On a chain without cycle no     *)
(* call raises the circular-chain error, however many of its distinct      *)
(* nodes have the same content; a call that raises it has reached one and  *)
(* the same node twice.                                                    *)
(***************************************************************************)
C24_CycleDetectionIsByIdentity ==
    (call.fn \in Functions /\ Finished) =>
        LET circular == call.status = "threw" /\ call.message = CircularMessage
        IN  /\ ~Chain(call.error).cyclic => ~circular
            /\ circular =>
                 \E i, j \in 1..Len(call.yielded) : i < j /\ call.yielded[i] = call.yielded[j]

C24_Witness ==
    /\ call.fn = "filterCauseChain"
    /\ call.status = "returned"
    /\ call.previous = NoPrevious
    /\ call.error = Obj(1)
    /\ DOMAIN heap = 1..3
    /\ ~Chain(call.error).cyclic
    /\ heap[1].kind = heap[2].kind /\ heap[2].kind = heap[3].kind
    /\ call.yielded = <<Obj(1), Obj(2), Obj(3)>>

\* What getUserMessage({preferredLang: lang}) returns on e.
Preferred(e, lang) == getUserMessage(e, lang, Undefined).outcome.retval

\* The step was a call of addLocalizedMessage or updateLocalizedMessage, and
\* what getUserMessage({preferredLang: lang}) is to return after it: the
\* message just written for lang, if the call wrote one, and what it
\* returned before the call otherwise.
Written(lang) ==
    LET o == err'.outcome
    IN  IF o.lang = lang /\ o.status = "returned" THEN o.message ELSE Preferred(err, lang)

WriteStep ==
    /\ err' # err
    /\ err'.outcome.method \in {"addLocalizedMessage", "updateLocalizedMessage"}

\* A duplicate addLocalizedMessage is rejected, any other write succeeds and
\* returns the error itself.
WriteOutcome ==
    LET o == err'.outcome
    IN  /\ o.status = "threw" <=>
             (o.method = "addLocalizedMessage" /\ MapHas(err._localizedMessages, o.lang))
        /\ o.status = "returned" => o.retval = This

(***************************************************************************)
(* C25 as claimed: after every addLocalizedMessage or                      *)
(* updateLocalizedMessage call, getUserMessage({preferredLang: l}) returns *)
(* the message of the most recent successful write for l, for every        *)
(* language code l, and every successful call returns the error itself.    *)
(* The code does not do this for the empty string as language.             *)
(***************************************************************************)
C25_LastWriteWins ==
    [][ WriteStep =>
          /\ WriteOutcome
          /\ \A l \in LangArgs : Preferred(err', l) = Written(l) ]_vars

(***************************************************************************)
(* C25 as amended: the same for every non-empty language code l.           *)
(***************************************************************************)
C25_LastWriteWinsForNonEmptyLanguage ==
    [][ WriteStep =>
          /\ WriteOutcome
          /\ \A l \in Langs : Preferred(err', l) = Written(l) ]_vars

C25_Witness ==
    LET o == err.outcome
    IN  /\ o.method = "updateLocalizedMessage"
        /\ o.lang \in Langs
        /\ MapHas(o.before.localized, o.lang)
        /\ o.before.localized[o.lang] # o.message
        /\ Preferred(err, o.lang) = o.message
        /\ err._defaultUserMessage \in Messages

(***************************************************************************)
(* C26: toJSON ends and returns a serialized cause whatever the cause is,  *)
(* also when the cause refers to itself and when the causes are Error      *)
(* instances whose cause links form a cycle.  The code does not do this    *)
(* for a cycle of Error instances.                                         *)
(***************************************************************************)
C26_ToJSONReturnsForEveryCause ==
    call.fn = "toJSON" => (call.status = "returned" /\ call.results # <<>>)

\* The chain from start is a cycle through start: its last node is caused
\* by start.
CycleThrough(start) ==
    LET chain == Chain(start)
    IN  /\ chain.cyclic
        /\ Cause(chain.nodes[Len(chain.nodes)]) = start

(***************************************************************************)
(* C27: on a cycle of L distinct nodes entered at start,                   *)
(* getRootCause(start, maxDepth) raises the circular-chain error exactly   *)
(* when maxDepth >= L; for 0 <= maxDepth < L it returns the node at index  *)
(* maxDepth.                                                               *)
(***************************************************************************)
C27_RootCauseOnCycle ==
    (call.fn = "getRootCause" /\ Finished /\ call.maxDepth >= 0 /\ CycleThrough(call.error)) =>
        LET nodes == Chain(call.error).nodes
            L == Len(nodes)
        IN  /\ (call.status = "threw" /\ call.message = CircularMessage) <=> call.maxDepth >= L
            /\ call.maxDepth < L =>
                 (call.status = "returned" /\ call.retval = nodes[call.maxDepth + 1])

C27_Witness ==
    /\ call.fn = "getRootCause"
    /\ CycleThrough(call.error)
    /\ call.error = Obj(1)
    /\ DOMAIN heap = 1..3
    /\ call.maxDepth = 2
    /\ call.status = "returned"
    /\ call.retval = Obj(3)

(***************************************************************************)
(* C28: with a negative maxDepth no node is visited and the predicate is   *)
(* never called: getRootCause returns start, findInCauseChain returns      *)
(* undefined, someCauseChain returns false, filterCauseChain returns an    *)
(* empty array and everyCauseChain returns true, whatever start is, and no *)
(* error is raised.                                                        *)
(***************************************************************************)
C28_NegativeDepthVisitsNothing ==
    (call.fn \in TraversalFunctions /\ Finished /\ call.maxDepth < 0) =>
        /\ call.status = "returned"
        /\ call.yielded = <<>>
        /\ call.fn = "getRootCause" => call.retval = call.error
        /\ call.fn = "findInCauseChain" => call.retval = Undefined
        /\ call.fn = "someCauseChain" => call.retval = False
        /\ call.fn = "filterCauseChain" => (call.results = <<>> /\ call.retval = Array(0))
        /\ call.fn = "everyCauseChain" => call.retval = True

C28_Witness ==
    /\ call.fn = "someCauseChain"
    /\ call.maxDepth < 0
    /\ call.status = "returned"
    /\ call.retval = False
    /\ call.predicate = "alwaysTrue"
    /\ call.error = Obj(1)
    /\ Chain(call.error).cyclic

\* findInCauseChain called with the arguments of the call c, run to its end.
FindLike(c) == Run(NewCall("findInCauseChain", c.error, c.predicate, c.maxDepth))

(***************************************************************************)
(* C29: whenever filterCauseChain returns, findInCauseChain with the same  *)
(* start, predicate and maxDepth returns the first element of its result,  *)
(* or undefined when the result is empty; and whenever findInCauseChain    *)
(* raises, filterCauseChain raises the same error (findInCauseChain may    *)
(* return a node where filterCauseChain raises the circular-chain error).  *)
(***************************************************************************)
C29_FindIsHeadOfFilter ==
    (call.fn = "filterCauseChain" /\ Finished) =>
        LET find == FindLike(call)
        IN  /\ call.status = "returned" =>
                 /\ find.status = "returned"
                 /\ find.retval = IF call.results = <<>> THEN Undefined ELSE call.results[1]
            /\ find.status = "threw" =>
                 (call.status = "threw" /\ call.message = find.message)

C29_Witness ==
    /\ call.fn = "filterCauseChain"
    /\ call.status = "threw"
    /\ call.message = CircularMessage
    /\ call.error = Obj(1)
    /\ FindLike(call).status = "returned"
    /\ FindLike(call).retval = Obj(2)

(***************************************************************************)
(* C30: on a chain whose cycle is detected within the depth bound,         *)
(* everyCauseChain returns false, without raising, when a node of the      *)
(* chain fails the predicate, raises the circular-chain error when every   *)
(* node satisfies it, and never returns true; filterCauseChain and         *)
(* getRootCause raise the circular-chain error and return nothing.         *)
(***************************************************************************)
C30_CycleWithinBound ==
    (call.fn \in {"everyCauseChain", "filterCauseChain", "getRootCause"} /\ Finished) =>
        LET chain == Chain(call.error)
            nodes == chain.nodes
            raised == call.status = "threw" /\ call.message = CircularMessage
                        /\ call.retval = Undefined
        IN  ( /\ chain.cyclic
              /\ Len(nodes) <= call.maxDepth
              /\ Total(nodes, call.predicate, call.maxDepth) ) =>
              /\ call.fn = "everyCauseChain" =>
                   /\ (\E i \in 1..Len(nodes) : ~Apply(call.predicate, nodes[i])) =>
                        (call.status = "returned" /\ call.retval = False)
                   /\ (\A i \in 1..Len(nodes) : Apply(call.predicate, nodes[i])) => raised
                   /\ ~(call.status = "returned" /\ call.retval = True)
              /\ call.fn \in {"filterCauseChain", "getRootCause"} => raised

C30_Witness ==
    /\ call.fn = "everyCauseChain"
    /\ call.status = "returned"
    /\ call.retval = False
    /\ call.error = Obj(1)
    /\ DOMAIN heap = 1..3
    /\ Chain(call.error).cyclic
    /\ call.maxDepth = 3
    /\ call.predicate = "isRetryableStructuredError"
    /\ Len(call.yielded) = 3

====
